---- MODULE Spec2Model ----
(***************************************************************************)
(* Model of the asynchronous command orchestration of insteon-mqtt:        *)
(*   - handler/ModemDbModify.py : the modem all-link database handler,     *)
(*     translated from the source;                                         *)
(*   - CommandSeq               : the command sequencer the devices use.   *)
(*     Its source is not part of the files at hand, it is modelled from    *)
(*     section 4.2 of the specification.                                   *)
(*   - device/NWayDimmer.py     : the aggregate of several dimmers,        *)
(*     translated from the source;                                         *)
(*   - Signal                   : the event bus, modelled from section 4.1 *)
(*     of the specification.                                               *)
(* Each component has its own specification over its own variables; the    *)
(* variables of the other components stay at their initial values.         *)
(***************************************************************************)
EXTENDS Integers, Sequences, FiniteSets, TLC

VARIABLES
    \* ---- ModemDbModify and its collaborators
    db,              \* modem database: key -> entry object held, or None
    edata,           \* data field of the entry objects that were in the db
                     \* when the handler was built (the mutable objects)
    saved,           \* what the last save() wrote: key -> data or "none"
    db0,             \* the database view at construction (never changes)
    entry,           \* self.entry
    existing_entry,  \* self.existing_entry
    has_on_done,     \* whether the on_done argument was given (self._on_done)
    next,            \* self.next: queue of <<msg, entry>>
    chain,           \* every <<msg, entry>> of the chain, in the order given:
                     \* the caller's first message, then the add_update calls
    outstanding,     \* transport: the message whose reply the handler awaits
    sent,            \* transport: ids of the messages written, in order
    state,           \* NEW, AWAITING_REPLY, DONE, FAILED, RAISED
    ret,             \* what the last msg_received returned
    trace,           \* what happened, in program order
    late_add,        \* add_update was called while a reply was awaited
    \* ---- CommandSeq
    calls,           \* the steps added, in order
    started,         \* run() has been called
    invoked,         \* the steps invoked so far, in order
    in_flight,       \* a step was invoked and has not reported yet
    last_msg,        \* message of the last step that reported
    results,         \* invocations of the overall callback: <<success, msg>>
    step_log,        \* what each invoked step reported, in order
    invalid_state,   \* number of InvalidState failures raised
    \* ---- NWayDimmer
    nway,            \* the instance: its constructor arguments and fields
    nw_call,         \* the last method call on the instance and its outcome
    nw_members,      \* the level each member device reported last
    nw_last_report,  \* the last member report: device and level
    nw_reports,      \* the reports handed to handle_device_level_changed
    \* ---- Signal
    sg_slots,        \* the listeners connected, in the order they connected
    sg_stack,        \* the emissions in progress, the innermost last
    sg_log,          \* every call of a listener: emission, listener, args
    sg_start         \* per emission: its arguments, the listeners connected
                     \* when it started, whether it returned, and whether a
                     \* listener it had yet to call was disconnected meanwhile

dbVars  == <<db, edata, saved, db0, entry, existing_entry, has_on_done, next,
             chain, outstanding, sent, state, ret, trace, late_add>>
seqVars == <<calls, started, invoked, in_flight, last_msg, results,
             step_log, invalid_state>>
nwVars  == <<nway, nw_call, nw_members, nw_last_report, nw_reports>>
sgVars  == <<sg_slots, sg_stack, sg_log, sg_start>>
vars    == <<dbVars, seqVars, nwVars, sgVars>>

\* ------------------------------------------------------------------ bounds
\* Number of distinct entry keys (remote address, group, role).
NumKeys == 2
\* Most add_update calls made on one handler.
MaxFollow == 2
\* Most steps added to one command sequence.
MaxSteps == 3
\* Most InvalidState failures counted.
MaxInvalid == 1
\* Most secondaries an aggregate is configured with.
MaxSecondaries == 2
\* Most level reports handed to the reconciliation listener.
MaxReports == 3
\* Most emissions started on one signal, nested ones included.
MaxEmits == 2

\* Python's None, where an entry is expected and where a message is expected.
None == [kind |-> "none", key |-> 0]
NoMsg == [id |-> 0, cmd |-> "none"]
Keys == 1..NumKeys

\* ----------------------------------------------------------- db.ModemEntry
\* An entry object.  "orig" objects are the ones the database held when the
\* handler was built; their data field is edata[key].  "new" objects are the
\* ones the caller built for a command; the handler never writes to them.
OrigEntries == [kind : {"orig"}, key : Keys]
NewEntries  == [kind : {"new"}, key : Keys]
Entries     == OrigEntries \cup NewEntries

DataOf(ed, e) == IF e.kind = "orig" THEN ed[e.key] ELSE "d1"

\* The database as key -> data, the content save() writes.
ViewOf(d, ed) == [k \in Keys |-> IF d[k] = None THEN "none" ELSE DataOf(ed, d[k])]

\* --------------------------------------------------- Msg.OutAllLinkUpdate
Cmds == {"DELETE", "UPDATE", "ADD_CONTROLLER", "ADD_RESPONDER"}
\* The role is part of an entry's key: the keys of odd number are controller
\* records, the others responder records.  A command that adds a record is
\* ADD_CONTROLLER for a controller entry and ADD_RESPONDER for a responder.
CmdsFor(e) ==
    {"DELETE", "UPDATE", IF e.key % 2 = 1 THEN "ADD_CONTROLLER" ELSE "ADD_RESPONDER"}
\* What the transport hands to the handler: a reply of the expected type
\* echoes the command of the message it answers, with the ACK/NAK flag; any
\* other message is of another type.
InMsgs(out) ==
    [type : {"OutAllLinkUpdate"}, is_ack : BOOLEAN, cmd : {out.cmd}]
        \cup [type : {"Other"}, is_ack : {TRUE}, cmd : {out.cmd}]

\* ---------------------------------------------------------------- events
Ev(ev, id, ok, obj) == [ev |-> ev, id |-> id, ok |-> ok, obj |-> obj]

\* The handler and its collaborators as one record, so that the statements
\* of a method compose in program order.
World == [db |-> db, edata |-> edata, saved |-> saved, entry |-> entry,
          existing_entry |-> existing_entry, has_on_done |-> has_on_done,
          next |-> next, outstanding |-> outstanding, sent |-> sent,
          state |-> state, ret |-> ret, trace |-> trace]

Log(w, e) == [w EXCEPT !.trace = Append(@, e)]

\* ------------------------------------------------------ db.Modem (spec)
\* LinkDatabase.save(): persists the full current database.
save(w) == Log([w EXCEPT !.saved = ViewOf(w.db, w.edata)], Ev("save", 0, TRUE, None))

\* LinkDatabase delete: the entry with the key of e leaves the database,
\* then the database is persisted.
delete_entry(w, e) ==
    save(Log([w EXCEPT !.db[e.key] = None], Ev("delete", e.key, TRUE, e)))

\* LinkDatabase add: e is the entry of its key (no two entries share a key),
\* then the database is persisted.
add_entry(w, e) ==
    save(Log([w EXCEPT !.db[e.key] = e], Ev("add", e.key, TRUE, e)))

\* ----------------------------------------------------- Protocol (spec)
\* Transport send(message, replyHandler): writes the message and registers
\* the handler for its reply.
send(w, msg) ==
    Log([w EXCEPT !.outstanding = msg, !.sent = Append(@, msg.id),
                  !.state = "AWAITING_REPLY"],
        Ev("send", msg.id, TRUE, None))

\* ------------------------------------------------------- ModemDbModify
\* An on_done that passes only successes on to the user callback.
on_done_SuccessOnly(w, success) ==
    IF w.has_on_done /\ success
    THEN Log(w, Ev("on_done", 0, success, w.entry))
    ELSE w

\* on_done(success, msg): calls the user callback, when there is one, with
\* the additional self.entry argument.
on_done(w, success) ==
    IF w.has_on_done
    THEN Log(w, Ev("on_done", 0, success, w.entry))
    ELSE w

\* An add_update that also writes the entry to the database when it is
\* queued, before the modem has acknowledged anything.
add_update_Speculative(w, msg, e) ==
    [w EXCEPT !.next = Append(@, <<msg, e>>), !.db[e.key] = e]

\* add_update(msg, entry)
add_update(w, msg, e) == [w EXCEPT !.next = Append(@, <<msg, e>>)]

\* A NAK branch that records the entry before it reports the failure.
NakBranch_ApplyFirst(w) ==
    [on_done(add_entry(w, w.entry), FALSE) EXCEPT !.ret = "FINISHED", !.state = "FAILED"]

\* msg_received, the NAK branch
NakBranch(w) ==
    [on_done(w, FALSE) EXCEPT !.ret = "FINISHED", !.state = "FAILED"]

\* msg_received, ACK of a DELETE
AckDelete(w) == delete_entry(w, w.entry)

\* An UPDATE branch that stores the pending entry as a record of its own
\* instead of copying its data onto the existing one.
AckUpdate_Replace(w) ==
    IF w.existing_entry = None
    THEN [Log(w, Ev("raise", 0, FALSE, None)) EXCEPT !.state = "RAISED", !.ret = "RAISED"]
    ELSE add_entry(w, w.entry)

\* An UPDATE branch that forgets self.db.save().
AckUpdate_NoSave(w) ==
    IF w.existing_entry = None
    THEN [Log(w, Ev("raise", 0, FALSE, None)) EXCEPT !.state = "RAISED", !.ret = "RAISED"]
    ELSE Log([w EXCEPT !.edata[w.existing_entry.key] = DataOf(w.edata, w.entry)],
             Ev("update", w.existing_entry.key, TRUE, w.entry))

\* An UPDATE branch that lets a missing existing entry pass: nothing is
\* copied and the handler goes on.
AckUpdate_Swallow(w) ==
    IF w.existing_entry = None
    THEN w
    ELSE save(Log([w EXCEPT !.edata[w.existing_entry.key] = DataOf(w.edata, w.entry)],
                  Ev("update", w.existing_entry.key, TRUE, w.entry)))

\* msg_received, ACK of an UPDATE: assert self.existing_entry, then copy the
\* data field onto the existing entry (a handle to an object of the db, when
\* the db still holds it) and save.
AckUpdate(w) ==
    IF w.existing_entry = None
    THEN [Log(w, Ev("raise", 0, FALSE, None)) EXCEPT !.state = "RAISED", !.ret = "RAISED"]
    ELSE save(Log([w EXCEPT !.edata[w.existing_entry.key] = DataOf(w.edata, w.entry)],
                  Ev("update", w.existing_entry.key, TRUE, w.entry)))

\* msg_received, ACK of a new controller or responder
AckAdd(w) == add_entry(w, w.entry)

\* A version that runs the done callback after every ACK (no else).
SendNextOrDone_AlwaysDone(w) ==
    IF w.next # <<>>
    THEN [on_done(send([w EXCEPT !.entry = Head(w.next)[2], !.next = Tail(w.next)],
                       Head(w.next)[1]), TRUE) EXCEPT !.state = "AWAITING_REPLY"]
    ELSE [on_done(w, TRUE) EXCEPT !.state = "DONE"]

\* A version that takes the newest queued message: self.next.pop().
SendNextOrDone_Lifo(w) ==
    IF w.next # <<>>
    THEN send([w EXCEPT !.entry = w.next[Len(w.next)][2],
                        !.next = SubSeq(w.next, 1, Len(w.next) - 1)],
              w.next[Len(w.next)][1])
    ELSE [on_done(w, TRUE) EXCEPT !.state = "DONE"]

\* A version that pops the next message and keeps the old self.entry.
SendNextOrDone_KeepsEntry(w) ==
    IF w.next # <<>>
    THEN send([w EXCEPT !.next = Tail(w.next)], Head(w.next)[1])
    ELSE [on_done(w, TRUE) EXCEPT !.state = "DONE"]

\* msg_received, after the mutation: send the next queued message, or run
\* the done callback when this was the last message of the chain.
SendNextOrDone(w) ==
    IF w.next # <<>>
    THEN send([w EXCEPT !.entry = Head(w.next)[2], !.next = Tail(w.next)],
              Head(w.next)[1])
    ELSE [on_done(w, TRUE) EXCEPT !.state = "DONE"]

\* msg_received, what is returned after the ACK was handled
AckReturn(w) == [w EXCEPT !.ret = "FINISHED"]

AckMutation(w, msg) ==
    CASE msg.cmd = "DELETE" -> AckDelete(w)
      [] msg.cmd = "UPDATE" -> AckUpdate(w)
      [] msg.cmd \in {"ADD_CONTROLLER", "ADD_RESPONDER"} -> AckAdd(w)
      [] OTHER -> w

\* A msg_received whose NAK branch lacks its return: after reporting the
\* failure it goes on as for an ACK.
msg_received_NakFallsThrough(w, msg) ==
    IF msg.type # "OutAllLinkUpdate"
    THEN [w EXCEPT !.ret = "UNKNOWN"]
    ELSE LET r == Log(w, Ev("recv", w.outstanding.id, msg.is_ack, None))
         IN  IF ~msg.is_ack
             THEN LET m == AckMutation(on_done(r, FALSE), msg)
                  IN  IF m.state = "RAISED"
                      THEN m
                      ELSE AckReturn(SendNextOrDone(m))
             ELSE LET m == AckMutation(r, msg)
                  IN  IF m.state = "RAISED"
                      THEN m
                      ELSE AckReturn(SendNextOrDone(m))

\* msg_received(protocol, msg)
msg_received(w, msg) ==
    IF msg.type # "OutAllLinkUpdate"
    THEN [w EXCEPT !.ret = "UNKNOWN"]
    ELSE LET r == Log(w, Ev("recv", w.outstanding.id, msg.is_ack, None))
         IN  IF ~msg.is_ack
             THEN NakBranch(r)
             ELSE LET m == AckMutation(r, msg)
                  IN  IF m.state = "RAISED"
                      THEN m
                      ELSE AckReturn(SendNextOrDone(m))

\* ------------------------------------------------------------ actions
SetWorld(w) ==
    /\ db' = w.db
    /\ edata' = w.edata
    /\ saved' = w.saved
    /\ entry' = w.entry
    /\ existing_entry' = w.existing_entry
    /\ has_on_done' = w.has_on_done
    /\ next' = w.next
    /\ outstanding' = w.outstanding
    /\ sent' = w.sent
    /\ state' = w.state
    /\ ret' = w.ret
    /\ trace' = w.trace

\* The database when the handler is built: key 1 holds an entry, the other
\* keys hold none.
InitialDb == [k \in Keys |-> IF k = 1 THEN [kind |-> "orig", key |-> 1] ELSE None]

\* ------------------------------------------------- NWayDimmer: data
Addrs == {"P", "S1", "S2"}
Levels == {0, 200}
SecLists == UNION {[1..n -> Addrs] : n \in 0..MaxSecondaries}
NoAddr == "none"
NoCall == [op |-> "none", flags |-> {}, error |-> "none", steps |-> <<>>,
           ran |-> FALSE, done |-> 0]
NoReport == [dev |-> NoAddr, level |-> 0]

\* No NWayDimmer is at work.
InitSgIdle ==
    /\ sg_slots = <<>>
    /\ sg_stack = <<>>
    /\ sg_log = <<>>
    /\ sg_start = <<>>

InitNWIdle ==
    /\ nway = [primary |-> "P", secondaries |-> <<>>, stage |-> "new",
               devices |-> <<>>, level |-> 0, has_signal |-> FALSE,
               announced |-> <<>>, connected |-> {}, emits |-> <<>>]
    /\ nw_call = NoCall
    /\ nw_members = [d \in Addrs |-> 0]
    /\ nw_last_report = NoReport
    /\ nw_reports = <<>>

InitSeqIdle ==
    /\ calls = <<>>
    /\ started = FALSE
    /\ invoked = <<>>
    /\ in_flight = FALSE
    /\ last_msg = "seq"
    /\ results = <<>>
    /\ step_log = <<>>
    /\ invalid_state = 0

\* ModemDbModify(modem_db, entry, existing_entry, on_done): the state after
\* construction; the caller has the first message in hand.
Init ==
    /\ db = InitialDb
    /\ edata = [k \in Keys |-> "d0"]
    /\ saved = ViewOf(db, edata)
    /\ db0 = ViewOf(db, edata)
    /\ entry \in NewEntries
    /\ existing_entry \in {None} \cup {e \in OrigEntries : db[e.key] = e}
    /\ has_on_done \in BOOLEAN
    /\ next = <<>>
    /\ \E c \in CmdsFor(entry) : chain = << <<[id |-> 1, cmd |-> c], entry>> >>
    /\ outstanding = NoMsg
    /\ sent = <<>>
    /\ state = "NEW"
    /\ ret = "NONE"
    /\ trace = <<>>
    /\ late_add = FALSE
    /\ InitSeqIdle
    /\ InitNWIdle
    /\ InitSgIdle

\* The caller hands the first message and the handler to the transport.
SendFirst ==
    /\ state = "NEW"
    /\ SetWorld(send(World, chain[1][1]))
    /\ UNCHANGED <<db0, chain, late_add, seqVars, nwVars, sgVars>>

\* The caller queues a follow-up, before or during the transaction.
AddUpdate ==
    /\ state \in {"NEW", "AWAITING_REPLY"}
    /\ Len(chain) <= MaxFollow
    /\ \E e \in NewEntries : \E c \in CmdsFor(e) :
          LET msg == [id |-> Len(chain) + 1, cmd |-> c]
          IN  /\ SetWorld(add_update(World, msg, e))
              /\ chain' = Append(chain, <<msg, e>>)
    /\ late_add' = (late_add \/ state = "AWAITING_REPLY")
    /\ UNCHANGED <<db0, seqVars, nwVars, sgVars>>

\* The transport delivers a message to the handler that awaits a reply.  A
\* handler that returned FINISHED without sending again is dropped.
MsgReceived ==
    /\ state = "AWAITING_REPLY"
    /\ \E msg \in InMsgs(outstanding) :
          LET w == msg_received(World, msg)
          IN  SetWorld(IF w.ret # "UNKNOWN" /\ w.sent = sent
                       THEN [w EXCEPT !.outstanding = NoMsg]
                       ELSE w)
    /\ UNCHANGED <<db0, chain, late_add, seqVars, nwVars, sgVars>>

Next == SendFirst \/ AddUpdate \/ MsgReceived

Spec == Init /\ [][Next]_vars

\* The time out code of the base class: no reply arrived in time.  __init__
\* hands self.on_done to the base class for this case; the base class calls
\* it with success False and the transport drops the handler.
Timeout ==
    /\ state = "AWAITING_REPLY"
    /\ LET w == Log(World, Ev("timeout", outstanding.id, FALSE, None))
       IN  SetWorld([on_done(w, FALSE) EXCEPT !.state = "FAILED",
                                              !.outstanding = NoMsg])
    /\ UNCHANGED <<db0, chain, late_add, seqVars, nwVars, sgVars>>

NextTimeout == SendFirst \/ AddUpdate \/ MsgReceived \/ Timeout

SpecTimeout == Init /\ [][NextTimeout]_vars

\* =========================================================== CommandSeq
\* The operations a step can name, and the messages a step can report.
Ops == {"op_a", "op_b"}
StepMsgs == {"m1", "m2"}

CommandSeq == [calls |-> calls, started |-> started, invoked |-> invoked,
               in_flight |-> in_flight, last_msg |-> last_msg, results |-> results,
               step_log |-> step_log, invalid_state |-> invalid_state]

InvalidState(cs) == [cs EXCEPT !.invalid_state = @ + 1]

\* The overall completion callback.
Overall(cs, success, msg) == [cs EXCEPT !.results = Append(@, <<success, msg>>)]

\* Invoke the next queued step as operation(...args, onStepDone).
InvokeNext(cs) ==
    [cs EXCEPT !.invoked = Append(@, cs.calls[Len(cs.invoked) + 1]),
               !.in_flight = TRUE]

\* add(operation, ...args): appends a step; InvalidState once started.
add(cs, op) ==
    IF cs.started
    THEN InvalidState(cs)
    ELSE [cs EXCEPT !.calls = Append(@, op)]

\* run(): begins the first step if any; an empty sequence completes at once
\* with success; running an already-run sequence is InvalidState.
run(cs) ==
    IF cs.started
    THEN InvalidState(cs)
    ELSE LET r == [cs EXCEPT !.started = TRUE]
         IN  IF r.calls = <<>>
             THEN Overall(r, TRUE, r.last_msg)
             ELSE InvokeNext(r)

\* A sequencer that reports to the overall callback after every successful
\* step, not only after the last one.
onStepDone_ReportEachStep(cs, success, msg) ==
    LET r == [cs EXCEPT !.in_flight = FALSE, !.last_msg = msg,
                        !.step_log = Append(@, [success |-> success, msg |-> msg])]
    IN  IF ~success
        THEN Overall(r, FALSE, msg)
        ELSE IF Len(r.invoked) < Len(r.calls)
             THEN InvokeNext(Overall(r, TRUE, msg))
             ELSE Overall(r, TRUE, msg)

\* A sequencer that goes on to the next step after a failed one.
onStepDone_IgnoreFailure(cs, success, msg) ==
    LET r == [cs EXCEPT !.in_flight = FALSE, !.last_msg = msg,
                        !.step_log = Append(@, [success |-> success, msg |-> msg])]
    IN  IF Len(r.invoked) < Len(r.calls)
        THEN InvokeNext(r)
        ELSE Overall(r, success, msg)

\* onStepDone(success, message): on success advance to the next queued step
\* or, if none remain, report (true, lastMessage); on failure stop at once
\* and report (false, message).
onStepDone(cs, success, msg) ==
    LET r == [cs EXCEPT !.in_flight = FALSE, !.last_msg = msg,
                        !.step_log = Append(@, [success |-> success, msg |-> msg])]
    IN  IF ~success
        THEN Overall(r, FALSE, msg)
        ELSE IF Len(r.invoked) < Len(r.calls)
             THEN InvokeNext(r)
             ELSE Overall(r, TRUE, msg)

SetSeq(cs) ==
    /\ calls' = cs.calls
    /\ started' = cs.started
    /\ invoked' = cs.invoked
    /\ in_flight' = cs.in_flight
    /\ last_msg' = cs.last_msg
    /\ results' = cs.results
    /\ step_log' = cs.step_log
    /\ invalid_state' = cs.invalid_state

\* No ModemDbModify is at work while a command sequence is observed.
InitDbIdle ==
    /\ db = InitialDb
    /\ edata = [k \in Keys |-> "d0"]
    /\ saved = ViewOf(db, edata)
    /\ db0 = ViewOf(db, edata)
    /\ entry = [kind |-> "new", key |-> 1]
    /\ existing_entry = None
    /\ has_on_done = FALSE
    /\ next = <<>>
    /\ chain = << <<[id |-> 1, cmd |-> "DELETE"], entry>> >>
    /\ outstanding = NoMsg
    /\ sent = <<>>
    /\ state = "NEW"
    /\ ret = "NONE"
    /\ trace = <<>>
    /\ late_add = FALSE

\* CommandSeq(protocol, msg, on_done): the state after construction.
InitSeq == InitSeqIdle /\ InitDbIdle /\ InitNWIdle /\ InitSgIdle

SeqAdd ==
    /\ IF started THEN invalid_state < MaxInvalid ELSE Len(calls) < MaxSteps
    /\ \E op \in Ops : SetSeq(add(CommandSeq, op))
    /\ UNCHANGED <<dbVars, nwVars, sgVars>>

SeqRun ==
    /\ started => invalid_state < MaxInvalid
    /\ SetSeq(run(CommandSeq))
    /\ UNCHANGED <<dbVars, nwVars, sgVars>>

\* The step in flight reports its completion, once.
StepDone ==
    /\ in_flight
    /\ \E success \in BOOLEAN, msg \in StepMsgs : SetSeq(onStepDone(CommandSeq, success, msg))
    /\ UNCHANGED <<dbVars, nwVars, sgVars>>

NextSeq == SeqAdd \/ SeqRun \/ StepDone

SpecSeq == InitSeq /\ [][NextSeq]_vars

\* Every started step reports its completion eventually.
SpecSeqFair == SpecSeq /\ WF_vars(StepDone)

\* =========================================================== NWayDimmer
\* The instance and the call in progress as one record, so that the
\* statements of a method compose in program order.
NW == [a |-> nway, c |-> nw_call]

Raise(x, kind) == [x EXCEPT !.c.error = kind]

\* The keys of a dict built by inserting the items of s in order: a key
\* that is inserted again keeps its first position.
DictKeys(s) ==
    LET F[i \in 0..Len(s)] ==
            IF i = 0 THEN <<>>
            ELSE IF \E j \in 1..Len(F[i - 1]) : F[i - 1][j] = s[i]
                 THEN F[i - 1]
                 ELSE Append(F[i - 1], s[i])
    IN  F[Len(s)]

\* The attributes an instance has: the methods the class defines and the
\* fields __init__ has assigned so far.  The class has no base class and
\* assigns neither addr nor label; it defines no refresh and no run_command.
Methods == {"from_config", "pair", "on", "off", "set", "scene", "increment_up",
            "increment_down", "set_backlight", "set_on_level", "set_flags",
            "handle_device_level_changed"}
Attrs(a) ==
    Methods
        \cup (IF a.stage = "new" THEN {}
              ELSE {"_level", "_primary", "modem", "protocol", "_devices"})
        \cup (IF a.has_signal THEN {"signal_level_changed"} ELSE {})

\* Whether a key of self._devices, an address, unpacks into two names.  An
\* address is one identifier of three bytes ('44.a3.79'), not a pair: an
\* Address object is not iterable (TypeError) and the string of the
\* configuration has eight characters (ValueError).
UnpacksToPair(key) == FALSE

\* `for addr, device in self._devices: seq.add(device.<op>, ...)`: iterating
\* a dict yields its keys, and each key is unpacked into the two names.
ForDevices(x, op) ==
    IF x.a.devices = <<>>
    THEN x
    ELSE IF ~UnpacksToPair(x.a.devices[1])
         THEN Raise(x, "UnpackError")
         ELSE Raise(x, "AttributeError")

\* seq.run() of the CommandSeq the method built: an empty sequence reports
\* success to on_done at once.
RunSeq(x) ==
    [x EXCEPT !.c.ran = TRUE, !.c.done = IF x.c.steps = <<>> THEN @ + 1 ELSE @]

\* A method whose first statement logs self.<attr>, then builds a CommandSeq
\* with a step per device and runs it.
FanOut(x, attr, op) ==
    IF attr \notin Attrs(x.a)
    THEN Raise(x, "AttributeError")
    ELSE LET y == ForDevices(x, op)
         IN  IF y.c.error # "none" THEN y ELSE RunSeq(y)

\* __init__(protocol, modem, primary, secondaries, name)
nway_init(x) ==
    LET secs == x.a.secondaries
        y == [x EXCEPT !.a.level = 0,
                       !.a.stage = "fields",
                       !.a.devices = DictKeys(secs \o <<x.a.primary>>)]
    IN  IF ~UnpacksToPair(y.a.devices[1])
        THEN Raise(y, "UnpackError")
        ELSE Raise(y, "AttributeError")

\* pair(on_done)
\* The steps the loops of pair add for the devices devs, in the order of
\* the seq.add calls: for each device its pair step, directly followed by
\* db_add_resp_of and db_add_ctrl_of for every other device.
PairBody(devs) ==
    LET Links(i) ==
            LET G[j \in 0..Len(devs)] ==
                    IF j = 0 THEN <<>>
                    ELSE IF j = i THEN G[j - 1]
                         ELSE G[j - 1] \o <<<<devs[i], "db_add_resp_of", devs[j]>>,
                                             <<devs[i], "db_add_ctrl_of", devs[j]>>>>
            IN  G[Len(devs)]
        F[i \in 0..Len(devs)] ==
            IF i = 0 THEN <<>>
            ELSE F[i - 1] \o <<<<devs[i], "pair", NoAddr>>>> \o Links(i)
    IN  F[Len(devs)]

nway_pair(x) ==
    IF "label" \notin Attrs(x.a)
    THEN Raise(x, "AttributeError")
    ELSE IF x.a.devices # <<>> /\ ~UnpacksToPair(x.a.devices[1])
         THEN Raise(x, "UnpackError")
         ELSE RunSeq([x EXCEPT !.c.steps = PairBody(x.a.devices)])

nway_on_SetsLevel(x, level) ==
    Raise([x EXCEPT !.a.level = level], "AttributeError")

\* on(group, level, instant, on_done)
nway_on(x, level) ==
    IF "addr" \notin Attrs(x.a)
    THEN Raise(x, "AttributeError")
    ELSE IF ~(level >= 0 /\ level <= 255)
         THEN Raise(x, "AssertionError")
         ELSE FanOut(x, "addr", "on")

\* off(group, instant, on_done)
nway_off(x) == FanOut(x, "addr", "off")

\* set(level, group, instant, on_done)
nway_set(x, level) == IF level # 0 THEN nway_on(x, level) ELSE nway_off(x)

\* scene(is_on, group, on_done)
nway_scene(x) == FanOut(x, "addr", "scene")

\* increment_up(on_done)
nway_increment_up(x) == FanOut(x, "addr", "increment_up")

\* increment_down(on_done)
nway_increment_down(x) == FanOut(x, "addr", "increment_down")

\* set_backlight(level, on_done)
nway_set_backlight(x) == FanOut(x, "label", "set_backlight")

\* set_on_level(level, on_done)
nway_set_on_level(x) == FanOut(x, "label", "set_on_level")

\* set_flags(on_done, **kwargs).  The message of the exception for unknown
\* flags is built with `"...%s...%s" % unknown, flags`: one argument for two
\* conversions, which raises TypeError before the Exception exists.  The
\* backlight flag is looked up under the key "backlink".
FlagKeys == {"backlight", "on_level", "gamma"}
nway_set_flags(x, kwargs) ==
    IF "label" \notin Attrs(x.a)
    THEN Raise(x, "AttributeError")
    ELSE IF kwargs \ {"backlight", "on_level"} # {}
         THEN Raise(x, "TypeError")
         ELSE LET b == IF "backlink" \in kwargs
                       THEN [x EXCEPT !.c.steps = Append(@, "set_backlight")]
                       ELSE x
                  o == IF "on_level" \in kwargs
                       THEN [b EXCEPT !.c.steps = Append(@, "set_on_level")]
                       ELSE b
              IN  RunSeq(o)

\* The refresh the class documents: the class defines no such method.
nway_refresh(x) ==
    IF "refresh" \notin Attrs(x.a) THEN Raise(x, "AttributeError") ELSE x

handle_device_level_changed_AlwaysEmits(x, device, level) ==
    [x EXCEPT !.a.level = level, !.a.emits = Append(@, level)]

\* handle_device_level_changed(device, level)
handle_device_level_changed(x, device, level) ==
    IF x.a.level # level
    THEN LET y == [x EXCEPT !.a.level = level]
         IN  IF "signal_level_changed" \in Attrs(y.a)
             THEN [y EXCEPT !.a.emits = Append(@, level)]
             ELSE Raise(y, "AttributeError")
    ELSE x

\* A member device emits signal_level_changed(device, level): the listeners
\* connected to that signal are called.
device_emit(x, device, level) ==
    IF device \in x.a.connected
    THEN handle_device_level_changed(x, device, level)
    ELSE x

\* ------------------------------------------------------------ actions
Call(op, kwargs) == [NW EXCEPT !.c = [NoCall EXCEPT !.op = op, !.flags = kwargs]]

SetNW(x) ==
    /\ nway' = x.a
    /\ nw_call' = x.c

\* The constructor arguments are given; no statement of __init__ has run.
InitNW ==
    /\ \E secs \in SecLists :
          nway = [primary |-> "P", secondaries |-> secs, stage |-> "new",
                  devices |-> <<>>, level |-> 0, has_signal |-> FALSE,
                  announced |-> <<>>, connected |-> {}, emits |-> <<>>]
    /\ nw_call = NoCall
    /\ nw_members = [d \in Addrs |-> 0]
    /\ nw_last_report = NoReport
    /\ nw_reports = <<>>
    /\ InitSeqIdle
    /\ InitDbIdle
    /\ InitSgIdle

NWInit ==
    /\ nway.stage = "new"
    /\ SetNW(nway_init(Call("__init__", {})))
    /\ UNCHANGED <<nw_members, nw_last_report, nw_reports, dbVars, seqVars, sgVars>>

\* The methods are called on the instance as __init__ left it.
NWPair ==
    /\ nway.stage # "new"
    /\ SetNW(nway_pair(Call("pair", {})))
    /\ UNCHANGED <<nw_members, nw_last_report, nw_reports, dbVars, seqVars, sgVars>>

NWOn ==
    /\ nway.stage # "new"
    /\ \E level \in Levels : SetNW(nway_on(Call("on", {}), level))
    /\ UNCHANGED <<nw_members, nw_last_report, nw_reports, dbVars, seqVars, sgVars>>

NWOff ==
    /\ nway.stage # "new"
    /\ SetNW(nway_off(Call("off", {})))
    /\ UNCHANGED <<nw_members, nw_last_report, nw_reports, dbVars, seqVars, sgVars>>

NWSet ==
    /\ nway.stage # "new"
    /\ \E level \in Levels : SetNW(nway_set(Call("set", {}), level))
    /\ UNCHANGED <<nw_members, nw_last_report, nw_reports, dbVars, seqVars, sgVars>>

NWScene ==
    /\ nway.stage # "new"
    /\ SetNW(nway_scene(Call("scene", {})))
    /\ UNCHANGED <<nw_members, nw_last_report, nw_reports, dbVars, seqVars, sgVars>>

NWIncrementUp ==
    /\ nway.stage # "new"
    /\ SetNW(nway_increment_up(Call("increment_up", {})))
    /\ UNCHANGED <<nw_members, nw_last_report, nw_reports, dbVars, seqVars, sgVars>>

NWIncrementDown ==
    /\ nway.stage # "new"
    /\ SetNW(nway_increment_down(Call("increment_down", {})))
    /\ UNCHANGED <<nw_members, nw_last_report, nw_reports, dbVars, seqVars, sgVars>>

NWSetBacklight ==
    /\ nway.stage # "new"
    /\ SetNW(nway_set_backlight(Call("set_backlight", {})))
    /\ UNCHANGED <<nw_members, nw_last_report, nw_reports, dbVars, seqVars, sgVars>>

NWSetOnLevel ==
    /\ nway.stage # "new"
    /\ SetNW(nway_set_on_level(Call("set_on_level", {})))
    /\ UNCHANGED <<nw_members, nw_last_report, nw_reports, dbVars, seqVars, sgVars>>

NWSetFlags ==
    /\ nway.stage # "new"
    /\ \E kwargs \in SUBSET FlagKeys : SetNW(nway_set_flags(Call("set_flags", kwargs), kwargs))
    /\ UNCHANGED <<nw_members, nw_last_report, nw_reports, dbVars, seqVars, sgVars>>

NWRefresh ==
    /\ nway.stage # "new"
    /\ SetNW(nway_refresh(Call("refresh", {})))
    /\ UNCHANGED <<nw_members, nw_last_report, nw_reports, dbVars, seqVars, sgVars>>

\* A member device reports a level.
MemberReport ==
    /\ nway.stage # "new"
    /\ \E i \in 1..Len(nway.devices), level \in Levels :
          LET dev == nway.devices[i]
          IN  /\ SetNW(device_emit(Call("report", {}), dev, level))
              /\ nw_members' = [nw_members EXCEPT ![dev] = level]
              /\ nw_last_report' = [dev |-> dev, level |-> level]
    /\ UNCHANGED <<nw_reports, dbVars, seqVars, sgVars>>

NextNW ==
    \/ NWInit \/ NWPair \/ NWOn \/ NWOff \/ NWSet \/ NWScene
    \/ NWIncrementUp \/ NWIncrementDown \/ NWSetBacklight \/ NWSetOnLevel
    \/ NWSetFlags \/ NWRefresh \/ MemberReport

SpecNWay == InitNW /\ [][NextNW]_vars

\* The methods by themselves, on an instance whose fields are the ones a
\* completed __init__ assigns: _level 0x00, the device mapping and
\* signal_level_changed.  A member's report is handed to
\* handle_device_level_changed; the commands are the ones of SpecNWay.
InitHandler ==
    /\ \E secs \in SecLists :
          LET devs == DictKeys(secs \o <<"P">>)
          IN  nway = [primary |-> "P", secondaries |-> secs, stage |-> "fields",
                      devices |-> devs, level |-> 0, has_signal |-> TRUE,
                      announced |-> devs,
                      connected |-> {devs[i] : i \in 1..Len(devs)},
                      emits |-> <<>>]
    /\ nw_call = NoCall
    /\ nw_members = [d \in Addrs |-> 0]
    /\ nw_last_report = NoReport
    /\ nw_reports = <<>>
    /\ InitSeqIdle
    /\ InitDbIdle
    /\ InitSgIdle

HandleReport ==
    /\ Len(nw_reports) < MaxReports
    /\ \E i \in 1..Len(nway.devices), level \in Levels :
          LET dev == nway.devices[i]
          IN  /\ SetNW(handle_device_level_changed(Call("report", {}), dev, level))
              /\ nw_members' = [nw_members EXCEPT ![dev] = level]
              /\ nw_last_report' = [dev |-> dev, level |-> level]
              /\ nw_reports' = Append(nw_reports, [dev |-> dev, level |-> level])
    /\ UNCHANGED <<dbVars, seqVars, sgVars>>

NextHandler ==
    \/ HandleReport \/ NWPair \/ NWOn \/ NWOff \/ NWSet \/ NWScene
    \/ NWIncrementUp \/ NWIncrementDown \/ NWSetBacklight \/ NWSetOnLevel
    \/ NWSetFlags

SpecHandler == InitHandler /\ [][NextHandler]_vars

\* =============================================================== Signal
\* The event bus (specification 4.1): connect registers a listener,
\* disconnect removes it, emit calls the listeners in registration order
\* with the same arguments, over a snapshot of the list taken when the
\* emission starts.  A listener's body may connect, disconnect or emit.
Listeners == {"a", "b"}
SigArgs == {0, 200}

Index(s, l) == IF \E i \in 1..Len(s) : s[i] = l
               THEN CHOOSE i \in 1..Len(s) : s[i] = l
               ELSE 0

\* connect(listener)
connect(slots, l) == IF Index(slots, l) = 0 THEN Append(slots, l) ELSE slots

\* disconnect(listener): nothing to do when the listener is absent.
disconnect(slots, l) == SelectSeq(slots, LAMBDA m : m # l)

\* The list an emission in progress walks.
Targets_Live(frame, slots) == slots

Targets(frame, slots) == frame.snap

\* A caller acts on the signal when no emission is in progress, or from the
\* body of the listener the innermost emission has just called.
InBody == IF sg_stack = <<>> THEN TRUE ELSE sg_stack[Len(sg_stack)].pos > 0

\* The emissions in progress that have yet to call the listener.
Pending(l) ==
    {sg_stack[k].id : k \in {j \in 1..Len(sg_stack) :
        Index(sg_stack[j].snap, l) > sg_stack[j].pos}}

SgConnect ==
    /\ InBody
    /\ \E l \in Listeners : sg_slots' = connect(sg_slots, l)
    /\ UNCHANGED <<sg_stack, sg_log, sg_start, dbVars, seqVars, nwVars>>

SgDisconnect ==
    /\ InBody
    /\ \E l \in Listeners :
          /\ sg_slots' = disconnect(sg_slots, l)
          /\ sg_start' = [e \in 1..Len(sg_start) |->
                             IF e \in Pending(l) /\ Index(sg_slots, l) > 0
                             THEN [sg_start[e] EXCEPT !.cut = TRUE]
                             ELSE sg_start[e]]
    /\ UNCHANGED <<sg_stack, sg_log, dbVars, seqVars, nwVars>>

\* emit(args): the emission starts.
SgEmit ==
    /\ InBody
    /\ Len(sg_start) < MaxEmits
    /\ \E args \in SigArgs :
          /\ sg_stack' = Append(sg_stack, [id |-> Len(sg_start) + 1, args |-> args,
                                           snap |-> sg_slots, pos |-> 0])
          /\ sg_start' = Append(sg_start, [args |-> args, slots |-> sg_slots,
                                           done |-> FALSE, cut |-> FALSE])
    /\ UNCHANGED <<sg_slots, sg_log, dbVars, seqVars, nwVars>>

\* The innermost emission calls its next listener.
SgDeliver ==
    /\ sg_stack # <<>>
    /\ LET n == Len(sg_stack)
           top == sg_stack[n]
           list == Targets(top, sg_slots)
       IN  /\ top.pos < Len(list)
           /\ sg_log' = Append(sg_log, [id |-> top.id, listener |-> list[top.pos + 1],
                                        args |-> top.args])
           /\ sg_stack' = [sg_stack EXCEPT ![n].pos = @ + 1]
    /\ UNCHANGED <<sg_slots, sg_start, dbVars, seqVars, nwVars>>

\* The innermost emission has called its last listener: emit returns.
SgReturn ==
    /\ sg_stack # <<>>
    /\ LET n == Len(sg_stack)
           top == sg_stack[n]
       IN  /\ top.pos >= Len(Targets(top, sg_slots))
           /\ sg_stack' = SubSeq(sg_stack, 1, n - 1)
           /\ sg_start' = [sg_start EXCEPT ![top.id].done = TRUE]
    /\ UNCHANGED <<sg_slots, sg_log, dbVars, seqVars, nwVars>>

InitSignal == InitDbIdle /\ InitSeqIdle /\ InitNWIdle /\ InitSgIdle

NextSignal == SgConnect \/ SgDisconnect \/ SgEmit \/ SgDeliver \/ SgReturn

SpecSignal == InitSignal /\ [][NextSignal]_vars

\* ============================================================== claims
\* What the step just taken appended to the trace, and whether the step
\* processed a reply of the expected type.
NewEvents == SubSeq(trace', Len(trace) + 1, Len(trace'))
Received == Len(trace') > Len(trace) /\ trace'[Len(trace) + 1].ev = "recv"
ReceivedAck == Received /\ trace'[Len(trace) + 1].ok
ReceivedNak == Received /\ ~trace'[Len(trace) + 1].ok

Events(e) == {i \in 1..Len(trace) : trace[i].ev = e}
Acks == {i \in Events("recv") : trace[i].ok}
Naks == {i \in Events("recv") : ~trace[i].ok}
Mutations == Events("delete") \cup Events("update") \cup Events("add")

\* The database the modem has confirmed: the view at construction with the
\* commands of the positively acknowledged messages applied in the order of
\* their replies.  orig is the set of keys that still hold the entry object
\* they held at construction.
ApplyConfirmed(c, m) ==
    LET cmd == m[1].cmd
        e   == m[2]
    IN  CASE cmd = "DELETE" ->
               [view |-> [c.view EXCEPT ![e.key] = "none"], orig |-> c.orig \ {e.key}]
          [] cmd \in {"ADD_CONTROLLER", "ADD_RESPONDER"} ->
               [view |-> [c.view EXCEPT ![e.key] = "d1"], orig |-> c.orig \ {e.key}]
          [] cmd = "UPDATE" ->
               IF existing_entry # None /\ existing_entry.key \in c.orig
               THEN [c EXCEPT !.view[existing_entry.key] = "d1"]
               ELSE c

RECURSIVE Confirmed(_)
Confirmed(n) ==
    IF n = 0
    THEN [view |-> db0, orig |-> {k \in Keys : db0[k] # "none"}]
    ELSE IF trace[n].ev = "recv" /\ trace[n].ok
         THEN ApplyConfirmed(Confirmed(n - 1), chain[trace[n].id])
         ELSE Confirmed(n - 1)

\* C1: once run() is called on a sequence of N >= 0 steps whose started
\* steps each report once, the overall callback is invoked exactly once:
\* never more than once, never before run(), eventually after run(), and at
\* once by run() itself, with success, when the sequence is empty.
C1_RunCompletesOnce ==
    /\ [](Len(results) <= 1)
    /\ [](~started => results = <<>>)
    /\ [][(~started /\ started' /\ calls = <<>>) =>
            (Len(results') = 1 /\ results'[1][1] = TRUE)]_vars
    /\ (started ~> (Len(results) = 1))

C1_Witness ==
    /\ started
    /\ Len(calls) >= 2
    /\ Len(step_log) = Len(calls)
    /\ Len(results) = 1
    /\ results[1][1] = TRUE

\* C2: when step k reports failure no later step is ever invoked and the
\* overall callback is invoked once with (false, step k's message); step i+1
\* is invoked only after step i reported success, in the order added.
C2_FailureShortCircuits ==
    /\ \A k \in 1..Len(step_log) :
          ~step_log[k].success =>
              /\ k = Len(step_log)
              /\ Len(invoked) = k
              /\ ~in_flight
              /\ results = << <<FALSE, step_log[k].msg>> >>
    /\ \A i \in 2..Len(invoked) :
          /\ i - 1 <= Len(step_log)
          /\ step_log[i - 1].success
    /\ Len(invoked) <= Len(calls)
    /\ invoked = SubSeq(calls, 1, Len(invoked))

C2_Witness ==
    /\ Len(calls) = 3
    /\ Len(step_log) = 2
    /\ step_log[1].success
    /\ ~step_log[2].success
    /\ Len(results) = 1

\* C3: a matching reply that is a NAK leaves the database and what was
\* saved untouched (no add, delete, update or save happens), the user
\* callback is invoked with success = false, and msg_received returns
\* FINISHED with the handler in state FAILED.
C3_NakLeavesDb ==
    [][ReceivedNak =>
        /\ db' = db /\ edata' = edata /\ saved' = saved
        /\ ret' = "FINISHED"
        /\ state' = "FAILED"
        /\ NewEvents =
              IF has_on_done
              THEN <<Ev("recv", outstanding.id, FALSE, None), Ev("on_done", 0, FALSE, entry)>>
              ELSE <<Ev("recv", outstanding.id, FALSE, None)>>]_vars

C3_Witness ==
    /\ state = "FAILED"
    /\ ret = "FINISHED"
    /\ has_on_done
    /\ trace[Len(trace)] = Ev("on_done", 0, FALSE, entry)
    /\ trace[Len(trace) - 1].ev = "recv"

\* C4: the database and its saved copy change only in a step that processes
\* a positively acknowledged matching reply (never when the handler is
\* built, a follow-up is queued or a message is sent), and the database
\* always equals the acknowledged mutations applied in order.
C4_DbOnlyOnAck ==
    /\ [](ViewOf(db, edata) = Confirmed(Len(trace)).view)
    /\ [][(db' # db \/ edata' # edata \/ saved' # saved) => ReceivedAck]_vars

C4_Witness ==
    /\ Cardinality(Acks) = 2
    /\ Len(chain) = 3
    /\ state = "AWAITING_REPLY"
    /\ ViewOf(db, edata) # db0

\* C5: an ACK of an UPDATE with an existing entry changes nothing of the
\* database but the data field of the existing entry, which becomes the
\* pending entry's data: every key holds the entry object it held before.
C5_UpdateInPlace ==
    [][(ReceivedAck /\ outstanding.cmd = "UPDATE" /\ existing_entry # None) =>
        /\ db' = db
        /\ existing_entry' = existing_entry
        /\ edata' = [edata EXCEPT ![existing_entry.key] = DataOf(edata, entry)]]_vars

C5_Witness ==
    /\ Events("update") # {}
    /\ existing_entry # None
    /\ db[existing_entry.key] = existing_entry
    /\ ViewOf(db, edata)[existing_entry.key] = "d1"
    /\ db0[existing_entry.key] = "d0"

\* C6: every applied mutation (delete, update, add) is followed by a save
\* before any later send or callback, so what is saved is the database
\* whenever the handler has returned.
C6_SaveBeforeProceeding ==
    /\ saved = ViewOf(db, edata)
    /\ \A j \in Mutations :
          \E s \in Events("save") :
              /\ s > j
              /\ \A t \in (j + 1)..(s - 1) : trace[t].ev \notin {"send", "on_done"}

C6_Witness ==
    \E j \in Events("update") :
        /\ j + 2 <= Len(trace)
        /\ trace[j + 1].ev = "save"
        /\ trace[j + 2].ev = "send"

\* C7: msg_received returns UNKNOWN for a message of another type, CONTINUE
\* when an ACK was applied and a follow-up was sent, and FINISHED only when
\* the chain has ended (NAK, or ACK with an empty queue).
C7_ReturnClassification ==
    /\ ret = "FINISHED" => state \in {"DONE", "FAILED"}
    /\ (state = "AWAITING_REPLY" /\ Acks # {}) => ret \in {"CONTINUE", "UNKNOWN"}

C9_NakStopsChain ==
    /\ [](state = "FAILED" =>
            /\ Cardinality(Naks) = 1
            /\ Cardinality(Acks) = Len(sent) - 1
            /\ outstanding = NoMsg
            /\ next = SubSeq(chain, Len(sent) + 1, Len(chain))
            /\ has_on_done =>
                  (Events("on_done") = {Len(trace)} /\ ~trace[Len(trace)].ok)
            /\ ViewOf(db, edata) = Confirmed(Len(trace)).view)
    /\ [][ReceivedNak =>
            (sent' = sent /\ next' = next /\ db' = db /\ edata' = edata)]_vars
    /\ [][state = "FAILED" => (sent' = sent /\ state' = "FAILED")]_vars

C9_Witness ==
    /\ state = "FAILED"
    /\ Len(sent) = 2
    /\ next # <<>>
    /\ has_on_done
    /\ ViewOf(db, edata) # db0

\* C10: the messages of a chain are sent in the order given (the first,
\* then the follow-ups as queued), each follow-up in the step that processes
\* the ACK of the message before it, so that at most one message awaits its
\* reply; also for follow-ups queued while the transaction is in progress.
C10_FifoOneAtATime ==
    /\ sent = [i \in 1..Len(sent) |-> i]
    /\ Len(sent) - Cardinality(Events("recv")) \in {0, 1}
    /\ Len(sent) - Cardinality(Events("recv")) = 1 <=> outstanding # NoMsg
    /\ Len(sent) >= 1 => next = SubSeq(chain, Len(sent) + 1, Len(chain))
    /\ \A i \in Events("send") :
          trace[i].id >= 2 =>
              \E r \in Acks :
                  /\ r < i
                  /\ trace[r].id = trace[i].id - 1
                  /\ \A t \in (r + 1)..(i - 1) : trace[t].ev \in {"delete", "update", "add", "save"}

C10_Witness ==
    /\ sent = <<1, 2, 3>>
    /\ late_add

\* ------------------------------------------------------------ C11..C20
Range(s) == {s[i] : i \in 1..Len(s)}
FanOutOps == {"on", "off", "scene", "increment_up", "increment_down",
              "set_backlight", "set_on_level"}
CommandOps == FanOutOps \cup {"set", "set_flags", "pair"}

\* C11: each fan-out operation (on, off, scene, increment_up, increment_down,
\* set_backlight, set_on_level) builds and runs one command sequence with
\* exactly one step per unique managed address; with P and [S1, S2] that is
\* 3 steps.  The code raises on the first line of each of them.
C11_FanOutOneStepPerDevice ==
    nw_call.op \in FanOutOps =>
        /\ nw_call.error = "none"
        /\ nw_call.ran
        /\ Len(nw_call.steps) = Len(nway.devices)

C13_CommandsLeaveLevel ==
    [][/\ (nw_call'.op \in CommandOps /\ nw_reports' = nw_reports) =>
              /\ nway'.level = nway.level
              /\ nway'.emits = nway.emits
       /\ (nway'.level # nway.level \/ nway'.emits # nway.emits) =>
              /\ nw_reports' # nw_reports
              /\ nw_call'.op = "report"]_vars

C13_Witness ==
    /\ nw_call.op = "on"
    /\ nw_last_report = [dev |-> "S1", level |-> 200]
    /\ nway.level = 200
    /\ nway.emits = <<200>>

\* C14: after any interleaving of reports from the primary and the
\* secondaries the aggregate's level is the level of the most recent report,
\* and no two consecutive emissions carry the same level.  __init__ raises
\* before it connects the listener, so no report reaches the aggregate.
C14_LastWriterWins ==
    /\ nw_last_report # NoReport => nway.level = nw_last_report.level
    /\ \A i \in 1..(Len(nway.emits) - 1) : nway.emits[i] # nway.emits[i + 1]

\* C15: pair() queues N pair steps and the cross-links of the N*(N-1)
\* ordered pairs of devices in one sequence (9 steps for P, S1, S2) and runs
\* it.  The code raises on its first line.
C15_PairSteps ==
    nw_call.op = "pair" =>
        LET n == Len(nway.devices)
        IN  /\ nw_call.error = "none"
            /\ nw_call.ran
            /\ Len(nw_call.steps) = n + n * (n - 1)

\* C16: set_flags with a key outside {backlight, on_level} fails with the
\* unsupported-flag error that names the accepted flags, with no step queued
\* and on_done not called.  The code raises AttributeError before it looks
\* at the flags.
C16_UnsupportedFlag ==
    (nw_call.op = "set_flags" /\ nw_call.flags \ {"backlight", "on_level"} # {}) =>
        /\ nw_call.error = "UnsupportedFlag"
        /\ nw_call.steps = <<>>
        /\ ~nw_call.ran
        /\ nw_call.done = 0

\* C18: the aggregate has a refresh pass after which every secondary whose
\* last-known level differed from the primary's has been sent a set with the
\* primary's level, and no other secondary has.  The class has no refresh.
C18_RefreshReconciles ==
    nw_call.op = "refresh" =>
        /\ nw_call.error = "none"
        /\ Range(nw_call.steps) =
               {<<d, "set", nw_members[nway.primary]>> :
                    d \in {e \in Range(nway.devices) \ {nway.primary} :
                               nw_members[e] # nw_members[nway.primary]}}

\* C20: the constructor succeeds with one Device per unique address,
\* announces each to the modem once, connects handle_device_level_changed
\* to each Device's signal_level_changed and creates its own
\* signal_level_changed.  The loop over self._devices raises.
C20_ConstructorWires ==
    nway.stage # "new" =>
        /\ nway.devices = DictKeys(nway.secondaries \o <<nway.primary>>)
        /\ nway.announced = nway.devices
        /\ nway.connected = Range(nway.devices)
        /\ nway.has_signal

\* C17: every emission calls each listener that was connected when it
\* started exactly once, in registration order, with the emission's
\* arguments, whatever the listeners connect, disconnect or emit meanwhile.
CallsOf(e) == SelectSeq(sg_log, LAMBDA c : c.id = e)
ExpectedCalls(e) ==
    [i \in 1..Len(sg_start[e].slots) |->
        [id |-> e, listener |-> sg_start[e].slots[i], args |-> sg_start[e].args]]
C17_SnapshotDelivery ==
    \A e \in 1..Len(sg_start) :
        /\ Len(CallsOf(e)) <= Len(ExpectedCalls(e))
        /\ CallsOf(e) = SubSeq(ExpectedCalls(e), 1, Len(CallsOf(e)))
        /\ sg_start[e].done => CallsOf(e) = ExpectedCalls(e)

C17_Witness ==
    \E e \in 1..Len(sg_start) :
        /\ sg_start[e].done
        /\ sg_start[e].cut
        /\ Len(sg_start[e].slots) >= 2
        /\ CallsOf(e) = ExpectedCalls(e)

\* C19: a time out while the handler awaits a reply, to the first message or
\* to a follow-up, acts as a NAK does: the user callback is called once with
\* success False and the current entry, the database and what was saved stay
\* as they are, and the queued follow-ups are never sent.
TimedOut == Len(trace') > Len(trace) /\ trace'[Len(trace) + 1].ev = "timeout"
C19_TimeoutAsNak ==
    [][/\ TimedOut =>
              /\ NewEvents =
                    <<Ev("timeout", outstanding.id, FALSE, None)>> \o
                    (IF has_on_done THEN <<Ev("on_done", 0, FALSE, entry)>> ELSE <<>>)
              /\ ViewOf(db', edata') = ViewOf(db, edata)
              /\ saved' = saved
              /\ sent' = sent
              /\ entry' = entry
              /\ state' = "FAILED"
       /\ Events("timeout") # {} =>
              /\ sent' = sent
              /\ ViewOf(db', edata') = ViewOf(db, edata)
              /\ trace' = trace]_vars

C19_Witness ==
    /\ Len(sent) = 2
    /\ next # <<>>
    /\ state = "FAILED"
    /\ Len(trace) >= 2
    /\ trace[Len(trace) - 1] = Ev("timeout", 2, FALSE, None)
    /\ trace[Len(trace)] = Ev("on_done", 0, FALSE, entry)

\* ------------------------------------------------------------ C21..C26
\* C21: every aggregate operation that takes on_done (on, off, set, scene,
\* increment_up, increment_down, set_backlight, set_on_level, pair, and
\* set_flags with valid keys only) builds and runs the command sequence that
\* calls on_done once; a sequence without steps calls it at once.  The code
\* raises before it builds the sequence, so on_done is never called.
C21_OnDoneResolves ==
    (nw_call.op \in CommandOps /\ nw_call.flags \subseteq {"backlight", "on_level"}) =>
        /\ nw_call.error = "none"
        /\ nw_call.ran
        /\ nw_call.steps = <<>> => nw_call.done = 1

\* C22: set_flags queues set_backlight when it is given 'backlight' and
\* set_on_level when it is given 'on_level', and reports no success without
\* them.  The code raises on its first line, and looks 'backlight' up under
\* the key 'backlink'.
C22_FlagsApplied ==
    (nw_call.op = "set_flags" /\ nw_call.flags \subseteq {"backlight", "on_level"}) =>
        /\ nw_call.error = "none"
        /\ "backlight" \in nw_call.flags => "set_backlight" \in Range(nw_call.steps)
        /\ "on_level" \in nw_call.flags => "set_on_level" \in Range(nw_call.steps)

\* C23: pair() builds and runs a sequence in which every cross-link step
\* comes after the pair steps of all the devices.  The code raises before it
\* builds the sequence, and its loops add each device's cross-links directly
\* after that device's pair step.
PairsFirst(steps) ==
    \A i, j \in 1..Len(steps) :
        (steps[i][2] # "pair" /\ steps[j][2] = "pair") => j < i
C23_CrossLinksAfterPairs ==
    nw_call.op = "pair" =>
        /\ nw_call.ran
        /\ PairsFirst(nw_call.steps)
        /\ PairsFirst(PairBody(nway.devices))

\* C25: a fan-out command queues its steps in the insertion order of the
\* device mapping, the secondaries in their order and then the primary, and
\* runs them one after the other.  The code raises before it queues a step.
C25_InsertionOrder ==
    nw_call.op \in FanOutOps =>
        /\ nw_call.ran
        /\ nw_call.steps = [i \in 1..Len(nway.devices) |-> <<nway.devices[i], nw_call.op>>]

\* C24: an ACK of an UPDATE processed while existing_entry is None raises
\* before any field of the database changes, before save and before a queued
\* follow-up is sent, and no on_done outcome is reported for it.
C24_UpdateWithoutExistingRaises ==
    [][/\ (ReceivedAck /\ outstanding.cmd = "UPDATE" /\ existing_entry = None) =>
              /\ NewEvents = <<Ev("recv", outstanding.id, TRUE, None),
                               Ev("raise", 0, FALSE, None)>>
              /\ db' = db
              /\ edata' = edata
              /\ saved' = saved
              /\ sent' = sent
              /\ next' = next
              /\ state' = "RAISED"
       /\ state = "RAISED" => (trace' = trace /\ sent' = sent /\ db' = db)]_vars

C24_Witness ==
    /\ state = "RAISED"
    /\ has_on_done
    /\ next # <<>>
    /\ Len(sent) = 2
    /\ Events("on_done") = {}
    /\ trace[Len(trace)].ev = "raise"

\* C26: the entry handed to the completion callback is the entry of the
\* message whose reply or time out ended the chain: on failure the entry of
\* the rejected message, with the database as it was; on success the entry
\* of the last message of the chain, with its change applied.  Each send of
\* a follow-up makes the popped entry the handler's current entry.
Applied(cmd, e) ==
    CASE cmd = "DELETE" -> db'[e.key] = None
      [] cmd \in {"ADD_CONTROLLER", "ADD_RESPONDER"} -> db'[e.key] = e
      [] cmd = "UPDATE" ->
             /\ existing_entry # None
             /\ edata'[existing_entry.key] = DataOf(edata, e)
C26_CallbackEntry ==
    [][/\ sent' # sent => entry' = chain'[Len(sent')][2]
       /\ \A i \in 1..Len(NewEvents) :
             NewEvents[i].ev = "on_done" =>
                 /\ sent' = sent
                 /\ NewEvents[i].obj = chain[Len(sent)][2]
                 /\ ~NewEvents[i].ok =>
                        /\ db' = db
                        /\ edata' = edata
                 /\ NewEvents[i].ok =>
                        /\ Len(sent) = Len(chain)
                        /\ Applied(chain[Len(sent)][1].cmd, chain[Len(sent)][2])]_vars

C26_Witness ==
    /\ state = "FAILED"
    /\ Len(sent) = 2
    /\ chain[2][2] # chain[1][2]
    /\ trace[Len(trace)] = Ev("on_done", 0, FALSE, chain[2][2])
    /\ trace[Len(trace) - 1] = Ev("recv", 2, FALSE, None)

====
